---------------------------- MODULE Spec2Model ----------------------------
(***************************************************************************)
(* configargs.h of the armv7-alpine-linux-musleabihf GCC 14.2.0 plugin     *)
(* headers: three objects of static storage duration, all const, and the   *)
(* threads of a program that links them and reads them.                    *)
(*                                                                         *)
(* A C string is a TLA+ string holding the characters before the           *)
(* terminating NUL; the i-th character of s is SubSeq(s, i, i).  A table   *)
(* entry { name, value } is a record of two such strings, and the table is *)
(* the sequence of its entries in initializer order (C index i is TLA+     *)
(* index i + 1).                                                           *)
(***************************************************************************)
EXTENDS Naturals, Sequences, FiniteSets

\* The number of reader threads.
NumReaders == 2

Readers == 1..NumReaders

\* The record of a cross compiler built on x86_64 for the same target.
configuration_arguments_cross ==
    "/home/buildozer/aports/main/gcc/src/gcc-14.2.0/configure " \o
    "--prefix=/usr --build=x86_64-alpine-linux-musl " \o
    "--host=x86_64-alpine-linux-musl " \o
    "--target=armv7-alpine-linux-musleabihf " \o
    "--with-arch=armv7-a --with-tune=generic-armv7-a " \o
    "--with-fpu=vfpv3-d16 --with-float=hard --with-abi=aapcs-linux " \o
    "--with-mode=thumb --enable-threads --enable-tls"

\* static const char configuration_arguments[] = "...";
configuration_arguments ==
    "/home/buildozer/aports/main/gcc/src/gcc-14.2.0/configure " \o
    "--prefix=/usr --mandir=/usr/share/man " \o
    "--infodir=/usr/share/info " \o
    "--build=armv7-alpine-linux-musleabihf " \o
    "--host=armv7-alpine-linux-musleabihf " \o
    "--target=armv7-alpine-linux-musleabihf " \o
    "--enable-checking=release --disable-cet --disable-fixed-point " \o
    "--disable-libstdcxx-pch --disable-multilib --disable-nls " \o
    "--disable-werror --disable-symvers --enable-__cxa_atexit " \o
    "--enable-default-pie --enable-default-ssp " \o
    "--enable-languages=c,c++,objc,go,fortran,ada " \o
    "--enable-link-serialization=2 --enable-linker-build-id " \o
    "--with-arch=armv7-a --with-tune=generic-armv7-a " \o
    "--with-fpu=vfpv3-d16 --with-float=hard --with-abi=aapcs-linux " \o
    "--with-mode=thumb --disable-libquadmath --disable-libssp " \o
    "--disable-libsanitizer --enable-shared --enable-threads " \o
    "--enable-tls --disable-libitm " \o
    "--with-bugurl=https://gitlab.alpinelinux.org/alpine/aports/-/issues " \o
    "--with-system-zlib --with-linker-hash-style=gnu " \o
    "--with-pkgversion='Alpine 14.2.0'"

\* A build configured with --disable-threads records the model "single".
thread_model_single == "single"

\* static const char thread_model[] = "posix";
thread_model == "posix"

\* The same eight entries with the first two initializers exchanged.
configure_default_options_reordered ==
    << [name |-> "cpu",   value |-> "arm10e"],
       [name |-> "abi",   value |-> "aapcs-linux"],
       [name |-> "arch",  value |-> "armv7-a"],
       [name |-> "tune",  value |-> "generic-armv7-a"],
       [name |-> "float", value |-> "hard"],
       [name |-> "mode",  value |-> "thumb"],
       [name |-> "fpu",   value |-> "vfpv3-d16"],
       [name |-> "tls",   value |-> "gnu"] >>

\* The table with the tune entry under the name of the cpu entry.
configure_default_options_twice ==
    << [name |-> "abi",   value |-> "aapcs-linux"],
       [name |-> "cpu",   value |-> "arm10e"],
       [name |-> "arch",  value |-> "armv7-a"],
       [name |-> "cpu",   value |-> "generic-armv7-a"],
       [name |-> "float", value |-> "hard"],
       [name |-> "mode",  value |-> "thumb"],
       [name |-> "fpu",   value |-> "vfpv3-d16"],
       [name |-> "tls",   value |-> "gnu"] >>

\* The table of a build whose default float ABI is not the configured one.
configure_default_options_softfp ==
    << [name |-> "abi",   value |-> "aapcs-linux"],
       [name |-> "cpu",   value |-> "arm10e"],
       [name |-> "arch",  value |-> "armv7-a"],
       [name |-> "tune",  value |-> "generic-armv7-a"],
       [name |-> "float", value |-> "softfp"],
       [name |-> "mode",  value |-> "thumb"],
       [name |-> "fpu",   value |-> "vfpv3-d16"],
       [name |-> "tls",   value |-> "gnu"] >>

\* The table without its last initializer: an array of seven elements.
configure_default_options_short ==
    << [name |-> "abi",   value |-> "aapcs-linux"],
       [name |-> "cpu",   value |-> "arm10e"],
       [name |-> "arch",  value |-> "armv7-a"],
       [name |-> "tune",  value |-> "generic-armv7-a"],
       [name |-> "float", value |-> "hard"],
       [name |-> "mode",  value |-> "thumb"],
       [name |-> "fpu",   value |-> "vfpv3-d16"] >>

\* static const struct { const char *name, *value; } configure_default_options[]
configure_default_options ==
    << [name |-> "abi",   value |-> "aapcs-linux"],
       [name |-> "cpu",   value |-> "arm10e"],
       [name |-> "arch",  value |-> "armv7-a"],
       [name |-> "tune",  value |-> "generic-armv7-a"],
       [name |-> "float", value |-> "hard"],
       [name |-> "mode",  value |-> "thumb"],
       [name |-> "fpu",   value |-> "vfpv3-d16"],
       [name |-> "tls",   value |-> "gnu"] >>

\* The number of initializers of configure_default_options, which is the
\* size of the array: its elements are at the C indices 0 .. NumOptions - 1.
NumOptions == 8

VARIABLES
    image,   \* the three objects as they are in memory
    pc,      \* pc[t]: "idle", "reading" (address chosen), "done" (loaded)
    target,  \* target[t]: the object, and the index in it, that t reads
    seen     \* seen[t]: what t's load returned

vars == <<image, pc, target, seen>>

\* The memory of the three objects when the program image has been loaded.
LoadedImage ==
    [ configuration_arguments   |-> configuration_arguments,
      thread_model              |-> thread_model,
      configure_default_options |-> configure_default_options ]

NoTarget == [obj |-> "none", idx |-> 0]

\* What a reader may read: either string, or one element of the table.
Addresses ==
    { [obj |-> "configuration_arguments", idx |-> 0],
      [obj |-> "thread_model", idx |-> 0] }
        \cup { [obj |-> "configure_default_options", idx |-> i] :
                 i \in 0..(NumOptions - 1) }

Nothing == [status |-> "none",  str |-> "", name |-> "", value |-> ""]
Fault   == [status |-> "fault", str |-> "", name |-> "", value |-> ""]

LoadedString(s) == [status |-> "ok", str |-> s, name |-> "", value |-> ""]
LoadedEntry(e)  == [status |-> "ok", str |-> "", name |-> e.name, value |-> e.value]

\* The outcomes of a load from address a of memory img.  An index past the
\* end of the array is undefined behaviour: the load may fault, or return
\* whatever lies behind the array.
Outcomes(img, a) ==
    IF a.obj = "configuration_arguments"
      THEN { LoadedString(img.configuration_arguments) }
    ELSE IF a.obj = "thread_model"
      THEN { LoadedString(img.thread_model) }
    ELSE IF a.idx < Len(img.configure_default_options)
      THEN { LoadedEntry(img.configure_default_options[a.idx + 1]) }
    ELSE { Fault, LoadedEntry([name |-> "", value |-> ""]) }

Init ==
    /\ image  = LoadedImage
    /\ pc     = [t \in Readers |-> "idle"]
    /\ target = [t \in Readers |-> NoTarget]
    /\ seen   = [t \in Readers |-> Nothing]

\* Reader t takes the address of one of the objects.
BeginRead(t, a) ==
    /\ pc[t] = "idle"
    /\ pc' = [pc EXCEPT ![t] = "reading"]
    /\ target' = [target EXCEPT ![t] = a]
    /\ UNCHANGED <<image, seen>>

\* A reader that casts the const away and cuts the configure string at its
\* first space while it loads it, as an in-place tokenizer does.
LoadInPlace(t) ==
    /\ pc[t] = "reading"
    /\ \E r \in Outcomes(image, target[t]) : seen' = [seen EXCEPT ![t] = r]
    /\ pc' = [pc EXCEPT ![t] = "done"]
    /\ image' = IF target[t].obj = "configuration_arguments"
                  THEN [image EXCEPT !.configuration_arguments =
                          SubSeq(@, 1, CHOOSE n \in 0..Len(@) :
                                         /\ n = Len(@) \/ SubSeq(@, n + 1, n + 1) = " "
                                         /\ \A k \in 1..n : SubSeq(@, k, k) # " ")]
                  ELSE image
    /\ UNCHANGED target

\* Reader t loads through the address it took.  The objects are const: the
\* load leaves them as they are.
Load(t) ==
    /\ pc[t] = "reading"
    /\ \E r \in Outcomes(image, target[t]) : seen' = [seen EXCEPT ![t] = r]
    /\ pc' = [pc EXCEPT ![t] = "done"]
    /\ UNCHANGED <<image, target>>

\* Reader t drops what it read and may read again.
Release(t) ==
    /\ pc[t] = "done"
    /\ pc' = [pc EXCEPT ![t] = "idle"]
    /\ target' = [target EXCEPT ![t] = NoTarget]
    /\ seen' = [seen EXCEPT ![t] = Nothing]
    /\ UNCHANGED image

Next ==
    \E t \in Readers :
        \/ \E a \in Addresses : BeginRead(t, a)
        \/ Load(t)
        \/ Release(t)

Spec == Init /\ [][Next]_vars

-----------------------------------------------------------------------------
(***************************************************************************)
(* Strings as their consumers read them.                                   *)
(***************************************************************************)

\* The i-th character of s.
Ch(s, i) == SubSeq(s, i, i)

StartsWith(s, p) == Len(s) >= Len(p) /\ SubSeq(s, 1, Len(p)) = p

EndsWith(s, p) == Len(s) >= Len(p) /\ SubSeq(s, Len(s) - Len(p) + 1, Len(s)) = p

\* The positions of s at which a token ends: a character that is no space
\* and is followed by a space or by the end of s.
TokenEnds(s) ==
    { j \in 1..Len(s) : Ch(s, j) # " " /\ (j = Len(s) \/ Ch(s, j + 1) = " ") }

\* The space-separated tokens of s from position i on, in order; ends is
\* TokenEnds(s), and the token that starts at i ends at the first of them.
RECURSIVE TokensFrom(_, _, _)
TokensFrom(s, ends, i) ==
    IF i > Len(s) THEN << >>
    ELSE IF Ch(s, i) = " " THEN TokensFrom(s, ends, i + 1)
    ELSE LET e == CHOOSE j \in ends :
                      j >= i /\ \A k \in ends : k >= i => j <= k
         IN  <<SubSeq(s, i, e)>> \o TokensFrom(s, ends, e + 1)

Tokens(s) == TokensFrom(s, TokenEnds(s), 1)

\* The tokens toks written with one space between neighbours.
RECURSIVE Join(_)
Join(toks) ==
    IF toks = << >> THEN ""
    ELSE IF Len(toks) = 1 THEN toks[1]
    ELSE toks[1] \o " " \o Join(Tail(toks))

\* tok is of the form --with-NAME=VALUE.
IsWith(tok) == StartsWith(tok, "--with-") /\ \E j \in 8..Len(tok) : Ch(tok, j) = "="

\* The position of the first "=" of a token of that form.
EqualsAt(tok) ==
    CHOOSE j \in 8..Len(tok) :
        Ch(tok, j) = "=" /\ \A k \in 8..(j - 1) : Ch(tok, k) # "="

WithName(tok)  == SubSeq(tok, 8, EqualsAt(tok) - 1)
WithValue(tok) == SubSeq(tok, EqualsAt(tok) + 1, Len(tok))

Range(f) == { f[i] : i \in DOMAIN f }

-----------------------------------------------------------------------------
(***************************************************************************)
(* Properties.                                                             *)
(***************************************************************************)

\* The reader t has loaded from the object obj.
Done(t, obj) == pc[t] = "done" /\ target[t].obj = obj

\* The eight pairs the table is documented to hold, in order.
EightPairs ==
    << <<"abi", "aapcs-linux">>, <<"cpu", "arm10e">>, <<"arch", "armv7-a">>,
       <<"tune", "generic-armv7-a">>, <<"float", "hard">>, <<"mode", "thumb">>,
       <<"fpu", "vfpv3-d16">>, <<"tls", "gnu">> >>

\* C1: configure_default_options holds exactly the eight pairs (abi,
\* aapcs-linux), (cpu, arm10e), (arch, armv7-a), (tune, generic-armv7-a),
\* (float, hard), (mode, thumb), (fpu, vfpv3-d16), (tls, gnu), in this order
\* and no other; a load of element i returns the i-th of them.
C1_TableHoldsTheEightPairs ==
    /\ Len(image.configure_default_options) = Len(EightPairs)
    /\ \A i \in 1..Len(EightPairs) :
          /\ image.configure_default_options[i].name  = EightPairs[i][1]
          /\ image.configure_default_options[i].value = EightPairs[i][2]
    /\ \A t \in Readers :
          Done(t, "configure_default_options") =>
             /\ seen[t].status = "ok"
             /\ seen[t].name  = EightPairs[target[t].idx + 1][1]
             /\ seen[t].value = EightPairs[target[t].idx + 1][2]

\* Both ends of the table have been loaded: element 0 by one reader and
\* element 7 by another.
C1_Witness ==
    \E t, u \in Readers :
        /\ Done(t, "configure_default_options") /\ target[t].idx = 0
        /\ seen[t].name = "abi"
        /\ Done(u, "configure_default_options") /\ target[u].idx = 7
        /\ seen[u].name = "tls"

\* Every completed load of one of the three objects returned the value the
\* object had when the image was loaded.
ReadsReturnInitialValues ==
    \A t \in Readers :
        pc[t] = "done" => seen[t] \in Outcomes(LoadedImage, target[t])

\* C2: no step of a reader changes configuration_arguments, thread_model or
\* configure_default_options, and under every interleaving of the readers
\* every load returns the initial value of what it reads.
C2_NeverWritten ==
    /\ []ReadsReturnInitialValues
    /\ [][image' = image]_vars

\* Two readers are at the same object at once: one has completed its load
\* of it while the other has taken its address and not loaded yet.
C2_Witness ==
    \E t, u \in Readers :
        /\ t # u
        /\ pc[t] = "done" /\ pc[u] = "reading"
        /\ target[t] = target[u]
        /\ seen[t].status = "ok"

\* The values --enable-threads accepts in GCC 14: the thread model names
\* defined by the toolchain.
ThreadModelNames ==
    { "aix", "dce", "lynx", "mipssde", "posix", "rtems", "single", "tpf",
      "vxworks", "win32", "mcf" }

\* C3: thread_model is "posix" in every state, one of the toolchain's thread
\* model names, and that is what a load of it returns.
C3_ThreadModelIsPosix ==
    /\ image.thread_model = "posix"
    /\ image.thread_model \in ThreadModelNames
    /\ \A t \in Readers :
          Done(t, "thread_model") => seen[t] = LoadedString("posix")

\* A reader has loaded thread_model.
C3_Witness ==
    \E t \in Readers : Done(t, "thread_model") /\ seen[t].str = "posix"

\* The target triple of the build.
Triple == "armv7-alpine-linux-musleabihf"

\* What C4 says of a configure command line s.
IsRecordedCommandLine(s) ==
    LET toks == Tokens(s) IN
    /\ Join(toks) = s
    /\ Len(toks) > 0
    /\ StartsWith(toks[1], "/") /\ EndsWith(toks[1], "/configure")
    /\ \A o \in {"--build=", "--host=", "--target="} :
          /\ (o \o Triple) \in Range(toks)
          /\ \A k \in DOMAIN toks : StartsWith(toks[k], o) => toks[k] = o \o Triple
    /\ "--with-fpu=vfpv3-d16" \in Range(toks)

\* C4: configuration_arguments is the recorded command line: as a sequence
\* of space-separated tokens it starts with the path of the configure
\* script, gives the triple armv7-alpine-linux-musleabihf for --build, --host
\* and --target alike, and contains --with-fpu=vfpv3-d16; the tokens, joined
\* by single spaces, are the string again.
C4_RecordedCommandLine ==
    /\ IsRecordedCommandLine(image.configuration_arguments)
    /\ \A t \in Readers :
          Done(t, "configuration_arguments") =>
             seen[t].status = "ok" /\ IsRecordedCommandLine(seen[t].str)

\* A reader has loaded the configure string and split it: 39 tokens, the
\* first the configure script, the last the closing half of the quoted
\* package version.
C4_Witness ==
    \E t \in Readers :
        /\ Done(t, "configuration_arguments")
        /\ Len(Tokens(seen[t].str)) = 39
        /\ Tokens(seen[t].str)[1] =
              "/home/buildozer/aports/main/gcc/src/gcc-14.2.0/configure"
        /\ Tokens(seen[t].str)[39] = "14.2.0'"

\* The names of the table tbl, and the C indices at which name n stands.
Keys(tbl) == { tbl[i].name : i \in DOMAIN tbl }
IndicesOf(tbl, n) == { i \in 0..(Len(tbl) - 1) : tbl[i + 1].name = n }

NotFound == [found |-> FALSE, value |-> ""]
Found(v) == [found |-> TRUE, value |-> v]

\* A lookup of n that scans tbl from index 0 upwards and stops at the first
\* match, and one that scans from the last index downwards.
LookupFirst(tbl, n) ==
    IF IndicesOf(tbl, n) = {} THEN NotFound
    ELSE Found(tbl[(CHOOSE i \in IndicesOf(tbl, n) :
                       \A j \in IndicesOf(tbl, n) : i <= j) + 1].value)
LookupLast(tbl, n) ==
    IF IndicesOf(tbl, n) = {} THEN NotFound
    ELSE Found(tbl[(CHOOSE i \in IndicesOf(tbl, n) :
                       \A j \in IndicesOf(tbl, n) : i >= j) + 1].value)

EightNames == {"abi", "cpu", "arch", "tune", "float", "mode", "fpu", "tls"}

\* Names that are none of the eight: the empty name, other configure
\* options, a key in another case, a key with its "--with-" prefix, a value.
OtherNames == {"", "schedule", "fp", "ABI", "--with-abi", "tl", "tlss", "gnu"}

\* C5: the names of configure_default_options are pairwise distinct and the
\* table has 8 entries, so a lookup by name is a function: each of the eight
\* names is found at exactly one index, scanning forwards or backwards gives
\* the same value, and a name outside the eight is not found.
C5_LookupIsAFunction ==
    LET tbl == image.configure_default_options IN
    /\ Len(tbl) = 8
    /\ \A i, j \in DOMAIN tbl : tbl[i].name = tbl[j].name => i = j
    /\ \A n \in EightNames :
          /\ Cardinality(IndicesOf(tbl, n)) = 1
          /\ LookupFirst(tbl, n).found
          /\ LookupFirst(tbl, n) = LookupLast(tbl, n)
    /\ \A n \in OtherNames :
          LookupFirst(tbl, n) = NotFound /\ LookupLast(tbl, n) = NotFound

\* A reader has loaded the element at index 3, and a lookup of the name it
\* read, in either direction, gives the value it read.
C5_Witness ==
    \E t \in Readers :
        /\ Done(t, "configure_default_options") /\ target[t].idx = 3
        /\ LookupFirst(image.configure_default_options, seen[t].name)
              = Found(seen[t].value)
        /\ LookupLast(image.configure_default_options, seen[t].name)
              = Found(seen[t].value)

\* The names NAME of the tokens --with-NAME=VALUE among toks.
WithNames(toks) == { WithName(tok) : tok \in { x \in Range(toks) : IsWith(x) } }

\* The command line of tokens toks and the table tbl agree.
Agree(toks, tbl) ==
    LET names == WithNames(toks) IN
    /\ \A tok \in Range(toks) :
          IsWith(tok) /\ WithName(tok) \in Keys(tbl) =>
             \A i \in DOMAIN tbl :
                tbl[i].name = WithName(tok) => tbl[i].value = WithValue(tok)
    /\ names \cap Keys(tbl) = {"abi", "arch", "tune", "fpu", "float", "mode"}
    /\ Keys(tbl) \ names = {"cpu", "tls"}

\* C6: every token --with-NAME=VALUE of configuration_arguments whose NAME
\* is a key of configure_default_options (abi, arch, tune, fpu, float, mode)
\* has the VALUE the table gives NAME, and the keys with no such token are
\* exactly cpu and tls; what two readers load from the two objects agrees
\* in the same way.
C6_RecordsAgree ==
    /\ Agree(Tokens(image.configuration_arguments), image.configure_default_options)
    /\ \A t, u \in Readers :
          Done(t, "configuration_arguments") /\ Done(u, "configure_default_options")
          => LET toks == Range(Tokens(seen[t].str)) IN
             \A tok \in toks :
                IsWith(tok) /\ WithName(tok) = seen[u].name
                   => WithValue(tok) = seen[u].value

\* One reader holds the command line and another the fpu entry of the
\* table, and the entry's value is the one the --with-fpu token gives.
C6_Witness ==
    \E t, u \in Readers :
        /\ Done(t, "configuration_arguments")
        /\ Done(u, "configure_default_options") /\ seen[u].name = "fpu"
        /\ \E tok \in Range(Tokens(seen[t].str)) :
              IsWith(tok) /\ WithName(tok) = "fpu" /\ WithValue(tok) = seen[u].value

\* C7: a read of configuration_arguments, of thread_model or of the element
\* at any index 0..7 of configure_default_options returns a value and never
\* ends in an error: every element 0..7 exists, each name and value is a
\* non-empty string, and no load faults.
C7_ReadsCannotFail ==
    /\ image.configuration_arguments # ""
    /\ image.thread_model # ""
    /\ \A i \in 0..7 :
          /\ i < Len(image.configure_default_options)
          /\ image.configure_default_options[i + 1].name # ""
          /\ image.configure_default_options[i + 1].value # ""
    /\ \A t \in Readers :
          /\ seen[t] # Fault
          /\ pc[t] = "done" =>
                /\ seen[t].status = "ok"
                /\ target[t].obj = "configure_default_options" =>
                      seen[t].name # "" /\ seen[t].value # ""
                /\ target[t].obj # "configure_default_options" => seen[t].str # ""

\* Loads of the last element of the table and of one of the strings have
\* both completed with a value.
C7_Witness ==
    \E t, u \in Readers :
        /\ Done(t, "configure_default_options") /\ target[t].idx = 7
        /\ seen[t].status = "ok" /\ seen[t].value # ""
        /\ pc[u] = "done" /\ target[u].obj # "configure_default_options"
        /\ seen[u].status = "ok" /\ seen[u].str # ""

=============================================================================
